---- MODULE Spec2Model ----
(***************************************************************************)
(* node-gammu-json: the polling pipeline (receive -> delete -> transmit)   *)
(* of one gateway instance, its queues and indices, and the helper         *)
(* subprocess and embedder handlers it talks to.                           *)
(*                                                                         *)
(* JavaScript runs one callback at a time, so every action below is one    *)
(* run-to-completion callback: an API call, a timer firing, a subprocess   *)
(* exit or an embedder handler answering.  The tasks of async.waterfall    *)
(* are entered through a deferred call, so a phase boundary is a point     *)
(* where other callbacks may run.                                          *)
(***************************************************************************)
EXTENDS Integers, Sequences, FiniteSets, TLC

\* ------------------------------------------------------------------ bounds
MaxSend == 2        \* send() calls in one run
MaxFails == 3       \* failure results the helper reports for one item
MaxLoc == 3         \* modem storage slots
MaxArrive == 2      \* records that arrive on the modem in one run
MaxBad == 1         \* retrieve outputs with a null element in one run
MaxLoopSend == 1    \* send() calls in a run of SpecLoop
MaxLoopArrive == 1  \* records that arrive in a run of SpecLoop
MaxParts == 3       \* segments of the message in a run of SpecEngine
MaxPeers == 2       \* segments return_segments hands over in a run of SpecIndex

Chains == {1, 2}    \* poll loops that can be alive at once (start() twice)
Loc == 1 .. MaxLoc
FalseLoc == 0       \* the value `false` in a location field / the key "false"

VARIABLES
  is_polling,           \* self._is_polling
  handlers,             \* names registered in self._handlers
  tx_attempt_limit,     \* self._tx_attempt_limit
  transmit_batch_size,  \* self._transmit_batch_size
  delete_batch_size,    \* self._delete_batch_size
  outbound_queue,       \* self._outbound_queue
  inbound_queue,        \* self._inbound_queue
  deletion_index,       \* self._deletion_index: key -> message
  segment_cache,        \* self._segment_cache: id -> segments
  pc,                   \* per poll loop: where its waterfall stands
  tx_args,              \* per poll loop: argv of the send helper in flight
  del_args,             \* per poll loop: argv of the delete helper in flight
  del_cap,              \* per poll loop: the index object captured by _delete_messages
  rx,                   \* per poll loop: the closure of _receive_messages
  modem,                \* records stored on the modem, by location
  store,                \* segments the embedder persisted (receive_segment)
  store_by_ref,         \* the embedder keeps the objects themselves, not copies
  txlog,                \* per outbound item: what the embedder observed
  nsent,                \* send() calls so far
  narrived,             \* records arrived so far
  nbad,                 \* malformed retrieve outputs so far
  crashed,              \* an exception escaped a callback
  last                  \* the callback that ran last and the events it emitted

vars == << is_polling, handlers, tx_attempt_limit, transmit_batch_size,
           delete_batch_size, outbound_queue, inbound_queue, deletion_index,
           segment_cache, pc, tx_args, del_args, del_cap, rx, modem, store,
           store_by_ref, txlog, nsent, narrived, nbad, crashed, last >>

\* ------------------------------------------------------------ small helpers
Min(a, b) == IF a < b THEN a ELSE b

Range(s) == { s[i] : i \in 1 .. Len(s) }

RECURSIVE SeqOfSet(_)
\* the elements of a set of integers in ascending order
SeqOfSet(S) ==
  IF S = {} THEN << >>
  ELSE LET m == CHOOSE x \in S : \A y \in S : x <= y
       IN << m >> \o SeqOfSet(S \ {m})

Step(op, c, errs, res) == [op |-> op, c |-> c, errs |-> errs, res |-> res]

NoLog == [cb |-> FALSE, fails |-> 0, oks |-> 0, cb_null |-> 0, cb_err |-> 0,
          ev_err |-> 0]

\* ------------------------------------------------------------- event sinks
\* (variant) a phase error that reaches no handler
notify_global_error_dropped == {}

\* _notify_global_error: the error handler, when registered, sees scope 'global'
notify_global_error == IF "error" \in handlers THEN {"global"} ELSE {}

\* _notify_release_segments: the release_segments handler, when registered,
\* is called. Its one caller is _notify_transmit, for an item with an id;
\* the items send() queues have none, so no step of the model emits it.
notify_release_segments ==
  IF "release_segments" \in handlers THEN {"release_segments"} ELSE {}

\* _notify_transmit_error: the item's callback gets the error, then the handler
notify_transmit_error(log, message) ==
  [log EXCEPT ![message.content] =
     [@ EXCEPT !.cb_err = @ + (IF message.callback THEN 1 ELSE 0),
               !.ev_err = @ + (IF "error" \in handlers THEN 1 ELSE 0)]]

\* _notify_transmit: the item's callback gets a null error
notify_transmit(log, message) ==
  [log EXCEPT ![message.content] =
     [@ EXCEPT !.oks = @ + 1,
               !.cb_null = @ + (IF message.callback THEN 1 ELSE 0)]]


\* ------------------------------------------------------------ message index
\* _message_index_add: one entry per location of the message (a scalar
\* location counts as a one-element list)
message_index_add(message, index) ==
  LET locations == Range(message.location)
  IN [k \in (DOMAIN index) \cup locations |->
        IF k \in locations THEN message ELSE index[k]]

\* _message_index_lookup: index[_message.location], for a scalar location
message_index_lookup(message, index) == message.location[1] \in DOMAIN index

\* _schedule_message_for_deletion: the message is indexed, then its
\* location field is set to false; every holder of the object sees that
schedule_message_for_deletion(message, index) ==
  LET cleared == [message EXCEPT !.location = << FalseLoc >>]
      added == message_index_add(message, index)
  IN [k \in DOMAIN added |->
        IF k \in Range(message.location) THEN cleared ELSE added[k]]

\* the order of `for (k in index)`: integer keys ascending, then "false"
KeysInOrder(index) ==
  SeqOfSet((DOMAIN index) \ {FalseLoc})
    \o (IF FalseLoc \in DOMAIN index THEN << FalseLoc >> ELSE << >>)

\* --------------------------------------------------------- outbound pipeline
To == 7   \* the one destination address used

RECURSIVE transmission_args_from(_, _)
transmission_args_from(messages, i) ==
  IF i >= Len(messages) \/ transmit_batch_size <= i + 1 THEN << >>
  ELSE << messages[i + 1].to, messages[i + 1].content >>
         \o transmission_args_from(messages, i + 1)

\* (variant) the arguments taken from offset 1
create_message_transmission_args_from_one(messages) ==
  transmission_args_from(messages, 1)

\* _create_message_transmission_args: to/content interleaved, from offset 0
create_message_transmission_args(messages) == transmission_args_from(messages, 0)

\* (variant) the attempts read without the `|| 1`
failed_attempt_from_zero(message) ==
  LET limit == tx_attempt_limit
      attempts == message.tx_attempts
  IN IF limit = 0 \/ attempts < limit
       THEN [retry |-> TRUE, tx_attempts |-> attempts + 1]
       ELSE [retry |-> FALSE, tx_attempts |-> message.tx_attempts]

\* (variant) the limit compared with <= in place of <
failed_attempt_inclusive(message) ==
  LET limit == tx_attempt_limit
      attempts == IF message.tx_attempts = 0 THEN 1 ELSE message.tx_attempts
  IN IF limit = 0 \/ attempts <= limit
       THEN [retry |-> TRUE, tx_attempts |-> attempts + 1]
       ELSE [retry |-> FALSE, tx_attempts |-> message.tx_attempts]

\* the retry decision of _deliver_transmit_results for a failed result
failed_attempt(message) ==
  LET limit == tx_attempt_limit
      attempts == IF message.tx_attempts = 0 THEN 1 ELSE message.tx_attempts
  IN IF limit = 0 \/ attempts < limit
       THEN [retry |-> TRUE, tx_attempts |-> attempts + 1]
       ELSE [retry |-> FALSE, tx_attempts |-> message.tx_attempts]

\* (variant) _.filter in place of _.reject
reject_sent_filter(queue, sent_indices) ==
  LET keep == SeqOfSet({ i \in 1 .. Len(queue) : i \in sent_indices })
  IN [k \in 1 .. Len(keep) |-> queue[keep[k]]]

\* the queue rebuilt by _.reject: the items whose index was marked sent go
reject_sent(queue, sent_indices) ==
  LET keep == SeqOfSet({ i \in 1 .. Len(queue) : i \notin sent_indices })
  IN [k \in 1 .. Len(keep) |-> queue[keep[k]]]

\* the iterator of _deliver_transmit_results for the result with this
\* (one-based) index; st carries the queue, the marks, the observations
deliver_one_result(st, index, result) ==
  IF st.crash THEN st
  ELSE IF index > Len(st.q) THEN [st EXCEPT !.crash = TRUE]
  ELSE
    LET message == st.q[index] IN
    IF result # "success"
      THEN LET f == failed_attempt(message)
               counted == [st.log EXCEPT ![message.content].fails = @ + 1]
           IN IF f.retry
                THEN [st EXCEPT !.q[index].tx_attempts = f.tx_attempts,
                                !.log = counted]
                ELSE [st EXCEPT !.log = notify_transmit_error(counted, message),
                                !.errs = @ \cup (IF "error" \in handlers
                                                   THEN {"transmit"} ELSE {})]
      ELSE [st EXCEPT !.sent = @ \cup {index},
                      !.log = notify_transmit(st.log, message)]

RECURSIVE deliver_results_from(_, _, _)
deliver_results_from(st, results, i) ==
  IF i > Len(results) THEN st
  ELSE deliver_results_from(deliver_one_result(st, i, results[i]), results, i + 1)

\* _deliver_transmit_results: every result in turn, then the queue rebuilt
deliver_transmit_results(results) ==
  LET st == deliver_results_from(
              [q |-> outbound_queue, sent |-> {}, log |-> txlog,
               errs |-> {}, crash |-> FALSE], results, 1)
  IN IF st.crash THEN st ELSE [st EXCEPT !.q = reject_sent(st.q, st.sent)]


\* ----------------------------------------------------------- message records
\* A record as the retrieve helper prints it, before its location is known:
\* udh 0, timestamp 0 and smsc_timestamp 0 stand for an absent field.
Raw(udh, segment, total, ts, smsc, content) ==
  [from |-> 5, udh |-> udh, segment |-> segment, total_segments |-> total,
   timestamp |-> ts, smsc_timestamp |-> smsc, content |-> content]

\* `null` in the helper's array: the one record the transform throws on
NullRaw == [from |-> 0, udh |-> 0, segment |-> 0, total_segments |-> 0,
            timestamp |-> 0, smsc_timestamp |-> 0, content |-> << >>]

Empty == [from |-> -1, udh |-> 0, segment |-> 0, total_segments |-> 0,
          timestamp |-> 0, smsc_timestamp |-> 0, content |-> << >>]

\* the raw record a message object was parsed from
RawOf(m) ==
  [from |-> m.from, udh |-> m.udh, segment |-> m.segment,
   total_segments |-> m.total_segments, timestamp |-> m.timestamp,
   smsc_timestamp |-> m.smsc_timestamp, content |-> m.content]

\* _transform_received_message on the record parsed from location loc:
\* multi-part records get the id <from>-<udh|0>-<total_segments> (a triple
\* here, the empty tuple when no id is set); `at` remembers the storage slot
\* the object came from, whatever its location field later holds
transform_received_message(raw, loc) ==
  [location |-> << loc >>, at |-> << loc >>,
   id |-> IF raw.total_segments > 1
            THEN << raw.from, raw.udh, raw.total_segments >> ELSE << >>,
   from |-> raw.from, udh |-> raw.udh, segment |-> raw.segment,
   total_segments |-> raw.total_segments, timestamp |-> raw.timestamp,
   smsc_timestamp |-> raw.smsc_timestamp, content |-> raw.content,
   parts |-> << >>]

\* --------------------------------------------------------- reassembly engine
\* a.isBefore(b) on a timestamp field: calling it on an absent field, or on
\* a field the transform left a string, throws
IsBefore(a, b) == a < b

\* (variant) a slot, once taken, keeps its first record
add_to_reassembly_index_keep_first(r, message, m) ==
  LET total == message.total_segments
      is_valid == /\ m.id = message.id
                  /\ m.segment <= total
                  /\ m.total_segments = total
  IN IF r.throw \/ ~is_valid THEN r
     ELSE IF m.segment \in DOMAIN r.index THEN r
       ELSE [r EXCEPT !.index =
               [k \in (DOMAIN @) \cup {m.segment} |->
                  IF k = m.segment THEN m ELSE @[k]]]

\* _add_to_reassembly_index; r carries the index built so far and whether an
\* exception is under way
add_to_reassembly_index(r, message, m) ==
  LET total == message.total_segments
      is_valid == /\ m.id = message.id
                  /\ m.segment <= total
                  /\ m.total_segments = total
  IN IF r.throw \/ ~is_valid THEN r
     ELSE IF m.segment \in DOMAIN r.index
       THEN IF m.timestamp = 0 THEN [r EXCEPT !.throw = TRUE]
            ELSE IF IsBefore(m.timestamp, r.index[m.segment].timestamp) THEN r
            ELSE [r EXCEPT !.index = [@ EXCEPT ![m.segment] = m]]
       ELSE [r EXCEPT !.index =
               [k \in (DOMAIN @) \cup {m.segment} |->
                  IF k = m.segment THEN m ELSE @[k]]]

RECURSIVE add_segments_from(_, _, _, _)
add_segments_from(r, message, segments, i) ==
  IF i > Len(segments) THEN r
  ELSE add_segments_from(add_to_reassembly_index(r, message, segments[i]),
                         message, segments, i + 1)

\* (variant) an index keyed by the order of presentation
build_reassembly_index_by_arrival(message, segments) ==
  [index |-> [k \in 1 .. Len(segments) + 1 |->
                IF k <= Len(segments) THEN segments[k] ELSE message],
   throw |-> FALSE]

\* _build_reassembly_index: the peers in order, then the trigger itself
build_reassembly_index(message, segments) ==
  add_to_reassembly_index(
    add_segments_from([index |-> << >>, throw |-> FALSE], message, segments, 1),
    message, message)

\* the loop of _create_message_from_reassembly_index from slot i onwards
RECURSIVE append_segments_from(_, _, _)
append_segments_from(rv, index, i) ==
  IF rv.throw \/ i > rv.m.total_segments THEN rv
  ELSE IF i \notin DOMAIN index THEN [rv EXCEPT !.throw = TRUE]
  ELSE
    LET segment == index[i]
        m1 == [rv.m EXCEPT !.content = @ \o segment.content,
                           !.parts = Append(@, segment),
                           !.location = @ \o segment.location,
                           !.at = @ \o segment.at]
        m2 == IF m1.timestamp # 0 /\ IsBefore(m1.timestamp, segment.timestamp)
                THEN [m1 EXCEPT !.timestamp = segment.timestamp] ELSE m1
    IN IF m2.smsc_timestamp # 0
         THEN [rv EXCEPT !.throw = TRUE]   \* a string has no isBefore
         ELSE append_segments_from([rv EXCEPT !.m = m2], index, i + 1)

\* _create_message_from_reassembly_index
create_message_from_reassembly_index(index) ==
  IF 1 \notin DOMAIN index THEN [throw |-> TRUE, m |-> index]
  ELSE
    LET first_message == index[1]
        rv == [first_message EXCEPT !.id = << >>, !.segment = 0,
                                    !.parts = << first_message >>]
    IN append_segments_from([throw |-> FALSE, m |-> rv], index, 2)

\* _try_to_reassemble_message once return_segments has answered with
\* `segments` ([def |-> FALSE] stands for undefined): "error", "none" (not
\* all parts are there yet) or "message" with the composite
try_to_reassemble_message(message, segments) ==
  IF ~segments.def THEN [kind |-> "error"]
  ELSE
    LET r == build_reassembly_index(message, segments.list)
    IN IF r.throw THEN [kind |-> "error"]
       ELSE IF Cardinality(DOMAIN r.index) = message.total_segments
         THEN LET rv == create_message_from_reassembly_index(r.index)
              IN IF rv.throw THEN [kind |-> "error"]
                 ELSE [kind |-> "message", m |-> rv.m]
         ELSE [kind |-> "none"]


\* ---------------------------------------------------------- inbound pipeline
\* The callbacks of one Receive phase work on a world w: the instance's
\* containers (iq, sc, di), the embedder's store (st), the closure of
\* _receive_messages (cx: the per-record progress, the per-poll reassembly
\* index, whether async.each has called back, the deliveries under way),
\* the poll loop's position (ph), the error events emitted (errs) and how the
\* phase's completion callback fired in this step, if it did (ended).

NewContext == [recs |-> << >>, index |-> << >>, fired |-> FALSE, deliv |-> << >>]

AllRecordsDone(cx) == \A i \in 1 .. Len(cx.recs) : cx.recs[i].st = "done"

AllDelivered(cx) == \A j \in 1 .. Len(cx.deliv) : cx.deliv[j].st # "wait"

\* _notify_receive_error: the error handler, when registered, sees scope 'receive'
notify_receive_error == IF "error" \in handlers THEN {"receive"} ELSE {}

\* the final callback of _deliver_incoming_messages: the queue is replaced
\* by the empty array and the phase calls back
deliver_incoming_finish(w) ==
  [w EXCEPT !.iq = << >>, !.ph = "delete", !.ended = "delivered"]

RECURSIVE schedule_all_from(_, _, _)
schedule_all_from(di, iq, j) ==
  IF j > Len(iq) THEN di
  ELSE schedule_all_from(schedule_message_for_deletion(iq[j], di), iq, j + 1)

\* (variant) a delivery that takes a missing receive handler for an acceptance
deliver_incoming_messages_accepting(w) ==
  LET has == "receive" \in handlers
      w1 == [w EXCEPT
               !.cx.deliv = [j \in 1 .. Len(w.iq) |->
                               [m |-> w.iq[j],
                                st |-> IF has THEN "wait" ELSE "ok"]],
               !.di = IF has THEN @ ELSE schedule_all_from(@, w.iq, 1),
               !.ph = "delivering"]
  IN IF AllDelivered(w1.cx) THEN deliver_incoming_finish(w1) ELSE w1

\* _deliver_incoming_messages: receive is dispatched for every queued
\* message; with no receive handler each dispatch is a global error and a
\* refusal on the spot
deliver_incoming_messages(w) ==
  LET has == "receive" \in handlers
      w1 == [w EXCEPT
               !.cx.deliv = [j \in 1 .. Len(w.iq) |->
                               [m |-> w.iq[j],
                                st |-> IF has THEN "wait" ELSE "err"]],
               !.errs = @ \cup (IF has \/ w.iq = << >> THEN {}
                                ELSE notify_global_error),
               !.ph = "delivering"]
  IN IF AllDelivered(w1.cx) THEN deliver_incoming_finish(w1) ELSE w1

each_next(w) ==
  IF ~w.cx.fired /\ AllRecordsDone(w.cx)
    THEN deliver_incoming_messages([w EXCEPT !.cx.fired = TRUE])
    ELSE w

\* an iterator of async.each reported an error: the first one ends the
\* phase at once, with that error, whatever the other iterators still do
each_error(w) ==
  IF w.cx.fired THEN w
  ELSE [w EXCEPT !.cx.fired = TRUE, !.errs = @ \cup notify_global_error,
                 !.ph = "delete", !.ended = "error"]

\* the iterator of _receive_messages up to its first asynchronous call
receive_iterator(w, i) ==
  LET m == w.cx.recs[i].m IN
  IF RawOf(m) = NullRaw
    THEN each_error([w EXCEPT !.cx.recs[i].st = "done"])
  ELSE IF m.total_segments <= 1
    THEN each_next([w EXCEPT !.iq = Append(@, m), !.cx.recs[i].st = "done"])
  ELSE [w EXCEPT !.cx.recs[i].st = "rs"]

RECURSIVE receive_iterators_from(_, _)
receive_iterators_from(w, i) ==
  IF i > Len(w.cx.recs) THEN w
  ELSE receive_iterators_from(receive_iterator(w, i), i + 1)

\* the callback of the retrieve helper on success: async.each over the records
receive_records(w, rv) ==
  LET w1 == [w EXCEPT !.cx.recs = [i \in 1 .. Len(rv) |->
                                     [m |-> rv[i], st |-> "new", sd |-> FALSE]],
                      !.ph = "records"]
  IN IF rv = << >>
       THEN deliver_incoming_messages([w1 EXCEPT !.cx.fired = TRUE])
       ELSE receive_iterators_from(w1, 1)

\* the per-record waterfall ended with an error: a receive error event
record_failed(w, i) ==
  each_next([w EXCEPT !.cx.recs[i].st = "done",
                      !.errs = @ \cup notify_receive_error])

\* the embedder's receive_segment handler persists a segment: one entry per
\* id and segment number, the newer object replacing the older
Persist(st, m) ==
  IF \E k \in 1 .. Len(st) : st[k].id = m.id /\ st[k].segment = m.segment
    THEN [k \in 1 .. Len(st) |->
            IF st[k].id = m.id /\ st[k].segment = m.segment THEN m ELSE st[k]]
    ELSE Append(st, m)

\* (variant) a built-in cache that reports should_delete = true
receive_segment_answer_deleting(w, i, ok) ==
  LET m == w.cx.recs[i].m IN
  IF "receive_segment" \notin handlers
    THEN [w EXCEPT !.sc = [k \in (DOMAIN @) \cup {m.id} |->
                             IF k \in DOMAIN @ /\ k # m.id THEN @[k]
                             ELSE IF k \in DOMAIN @ THEN Append(@[k], m)
                             ELSE << m >>],
                   !.cx.recs[i].st = "t2", !.cx.recs[i].sd = TRUE]
  ELSE IF ok
    THEN [w EXCEPT !.st = Persist(@, m),
                   !.cx.recs[i].st = "t2", !.cx.recs[i].sd = TRUE]
  ELSE record_failed(w, i)

\* _notify_receive_segment has its answer: the built-in default caches the
\* segment and reports should_delete = false; a registered handler has
\* persisted it (should_delete = true) or reports an error
receive_segment_answer(w, i, ok) ==
  LET m == w.cx.recs[i].m IN
  IF "receive_segment" \notin handlers
    THEN [w EXCEPT !.sc = [k \in (DOMAIN @) \cup {m.id} |->
                             IF k \in DOMAIN @ /\ k # m.id THEN @[k]
                             ELSE IF k \in DOMAIN @ THEN Append(@[k], m)
                             ELSE << m >>],
                   !.cx.recs[i].st = "t2", !.cx.recs[i].sd = FALSE]
  ELSE IF ok
    THEN [w EXCEPT !.st = Persist(@, m),
                   !.cx.recs[i].st = "t2", !.cx.recs[i].sd = TRUE]
  ELSE record_failed(w, i)

\* the callback of _try_to_reassemble_message
reassembled(w, i, segments) ==
  LET r == try_to_reassemble_message(w.cx.recs[i].m, segments) IN
  IF r.kind = "error" THEN record_failed(w, i)
  ELSE IF r.kind = "message"
    THEN each_next([w EXCEPT !.iq = Append(@, r.m),
                             !.cx.index = message_index_add(r.m, @),
                             !.cx.recs[i].st = "done"])
  ELSE each_next([w EXCEPT !.cx.recs[i].st = "done"])

\* a stored object whose location field was cleared shows that to an
\* embedder that kept the object itself
ClearStored(st, m) ==
  IF store_by_ref
    THEN [k \in 1 .. Len(st) |->
            IF st[k] = m THEN [m EXCEPT !.location = << FalseLoc >>] ELSE st[k]]
    ELSE st

\* (variant) a second task that schedules the segment whatever the first
\* task reported
receive_second_task_scheduling_all(w, i) ==
  LET m == w.cx.recs[i].m
      w1 == [w EXCEPT !.di = schedule_message_for_deletion(m, @),
                      !.cx.recs[i].m.location = << FalseLoc >>,
                      !.st = ClearStored(@, m)]
  IN IF message_index_lookup(m, w.cx.index)
       THEN each_next([w EXCEPT !.cx.recs[i].st = "done"])
     ELSE IF "return_segments" \in handlers
       THEN [w1 EXCEPT !.cx.recs[i].st = "ret"]
     ELSE reassembled(w1, i,
            IF m.id \in DOMAIN w1.sc
              THEN [def |-> TRUE, list |-> w1.sc[m.id]]
              ELSE [def |-> FALSE])

\* the second task of the per-record waterfall: a segment already covered
\* by a composite of this poll stops here; otherwise it is scheduled for
\* deletion when it was persisted, and reassembly is attempted
receive_second_task(w, i) ==
  LET m == w.cx.recs[i].m
      sd == w.cx.recs[i].sd
      w1 == IF sd
              THEN [w EXCEPT !.di = schedule_message_for_deletion(m, @),
                             !.cx.recs[i].m.location = << FalseLoc >>,
                             !.st = ClearStored(@, m)]
              ELSE w
  IN IF message_index_lookup(m, w.cx.index)
       THEN each_next([w EXCEPT !.cx.recs[i].st = "done"])
     ELSE IF "return_segments" \in handlers
       THEN [w1 EXCEPT !.cx.recs[i].st = "ret"]
     ELSE reassembled(w1, i,
            IF m.id \in DOMAIN w1.sc
              THEN [def |-> TRUE, list |-> w1.sc[m.id]]
              ELSE [def |-> FALSE])

\* the return_segments handler has its answer: the stored segments of that
\* id, or an error
return_segments_answer(w, i, ok) ==
  LET m == w.cx.recs[i].m IN
  IF ok
    THEN reassembled(w, i,
           [def |-> TRUE, list |-> SelectSeq(w.st, LAMBDA x : x.id = m.id)])
    ELSE record_failed(w, i)

\* the receive handler has its answer for the j-th delivery
receive_answer(w, j, ok) ==
  LET m == w.cx.deliv[j].m
      w1 == IF ok
              THEN [w EXCEPT !.di = schedule_message_for_deletion(m, @),
                             !.cx.deliv[j].st = "ok"]
              ELSE [w EXCEPT !.cx.deliv[j].st = "err"]
  IN IF AllDelivered(w1.cx) THEN deliver_incoming_finish(w1) ELSE w1


\* --------------------------------------------------------- deletion pipeline
RECURSIVE deletion_args_from(_, _)
deletion_args_from(keys, i) ==
  IF i >= Len(keys) \/ delete_batch_size <= i + 1 THEN << >>
  ELSE << keys[i + 1] >> \o deletion_args_from(keys, i + 1)

\* _create_message_deletion_args: the keys of the index, up to the batch cap
create_message_deletion_args(index) == deletion_args_from(KeysInOrder(index), 0)

RECURSIVE undeleted_from(_, _, _, _)
undeleted_from(undeleted, index, keys, ok) ==
  IF keys = << >> THEN undeleted
  ELSE undeleted_from(
         IF Head(keys) \in ok THEN undeleted
         ELSE message_index_add(index[Head(keys)], undeleted),
         index, Tail(keys), ok)

\* the loop of _delete_messages over the captured index: what the helper did
\* not answer 'ok' for is indexed again, under its message's location
undeleted_messages(index, ok) == undeleted_from(<< >>, index, KeysInOrder(index), ok)

Live == [live |-> TRUE, index |-> << >>]
Orphan(index) == [live |-> FALSE, index |-> index]

\* ------------------------------------------------------------------ actions
World(c) ==
  [iq |-> inbound_queue, sc |-> segment_cache, di |-> deletion_index,
   st |-> store, cx |-> rx[c], ph |-> pc[c], errs |-> {}, ended |-> ""]

\* records whose iterators have all finished are dropped from the closure
Settle(cx) == IF AllRecordsDone(cx) THEN [cx EXCEPT !.recs = << >>] ELSE cx

Commit(c, w, op) ==
  /\ inbound_queue' = w.iq
  /\ segment_cache' = w.sc
  /\ deletion_index' = w.di
  /\ store' = w.st
  /\ rx' = [rx EXCEPT ![c] = Settle(w.cx)]
  /\ pc' = [pc EXCEPT ![c] = w.ph]
  /\ last' = Step(op, c, w.errs, IF w.ended = "" THEN << >> ELSE << w.ended >>)

Options == << handlers, tx_attempt_limit, transmit_batch_size,
              delete_batch_size, store_by_ref >>
TxState == << outbound_queue, tx_args, txlog, nsent >>
RxState == << inbound_queue, segment_cache, rx, store >>
DelState == << del_args, del_cap >>

\* start(): _start_polling sets the flag and enters _handle_polling_timeout,
\* which begins a waterfall of its own, whatever is already running
start(c) ==
  /\ ~crashed
  /\ pc[c] = "idle"
  /\ \A d \in Chains : pc[d] = "idle" => c <= d
  /\ is_polling' = TRUE
  /\ pc' = [pc EXCEPT ![c] = "receive"]
  /\ last' = Step("start", c, {}, << >>)
  /\ UNCHANGED << Options, TxState, RxState, DelState, deletion_index, modem,
                  narrived, nbad, crashed >>

\* stop(): _stop_polling clears the flag
stop ==
  /\ ~crashed
  /\ is_polling
  /\ is_polling' = FALSE
  /\ last' = Step("stop", 0, {}, << >>)
  /\ UNCHANGED << Options, TxState, RxState, DelState, deletion_index, modem,
                  narrived, nbad, crashed, pc >>

\* (variant) a timer that starts the next tick without looking at the flag
handle_polling_timeout_unchecked(c) ==
  /\ ~crashed
  /\ pc[c] = "timer"
  /\ pc' = [pc EXCEPT ![c] = "receive"]
  /\ last' = Step("timeout", c, {}, << >>)
  /\ UNCHANGED << Options, TxState, RxState, DelState, deletion_index, modem,
                  narrived, nbad, crashed, is_polling >>

\* the timer set by the previous tick fires: _handle_polling_timeout
handle_polling_timeout(c) ==
  /\ ~crashed
  /\ pc[c] = "timer"
  /\ pc' = [pc EXCEPT ![c] = IF is_polling THEN "receive" ELSE "idle"]
  /\ last' = Step("timeout", c, {}, << >>)
  /\ UNCHANGED << Options, TxState, RxState, DelState, deletion_index, modem,
                  narrived, nbad, crashed, is_polling >>

\* (variant) send with unshift in place of push
send_unshift(callback) ==
  /\ ~crashed
  /\ nsent < MaxSend
  /\ nsent' = nsent + 1
  /\ outbound_queue' = << [to |-> To, tx_attempts |-> 0, content |-> nsent + 1,
                           callback |-> callback] >> \o outbound_queue
  /\ txlog' = [txlog EXCEPT ![nsent + 1].cb = callback]
  /\ last' = Step("send", 0, {}, << >>)
  /\ UNCHANGED << Options, RxState, DelState, deletion_index, modem, narrived, nbad,
                  crashed, is_polling, pc, tx_args >>

\* send(to, content, callback) with well-typed arguments
send(callback) ==
  /\ ~crashed
  /\ nsent < MaxSend
  /\ nsent' = nsent + 1
  /\ outbound_queue' = Append(outbound_queue,
       [to |-> To, tx_attempts |-> 0, content |-> nsent + 1,
        callback |-> callback])
  /\ txlog' = [txlog EXCEPT ![nsent + 1].cb = callback]
  /\ last' = Step("send", 0, {}, << >>)
  /\ UNCHANGED << Options, RxState, DelState, deletion_index, modem, narrived, nbad,
                  crashed, is_polling, pc, tx_args >>

\* what a caller may pass to send: a string or something else for `to` and
\* for the text; for the callback a function, nothing (undefined, null or
\* another falsy value, which send takes for no callback), or a truthy
\* value that is no function
ArgKinds == {"string", "number"}
CallbackKinds == {"function", "absent", "object"}

\* (variant) the sanity checks of send without the two string checks
send_throws_callback_only(to, message, callback) ==
  callback # "absent" /\ callback # "function"

\* the sanity checks of send: TRUE when one of them throws
send_throws(to, message, callback) ==
  \/ callback # "absent" /\ callback # "function"
  \/ to # "string"
  \/ message # "string"

\* send(to, content, callback) with arguments of any kind: it throws before
\* it touches the queue, or queues the item
send_call(to, message, callback) ==
  IF send_throws(to, message, callback)
    THEN /\ ~crashed
         /\ last' = Step("send_throw", 0, {}, << >>)
         /\ UNCHANGED << Options, TxState, RxState, DelState, deletion_index,
                         modem, narrived, nbad, crashed, is_polling, pc >>
    ELSE send(callback = "function")

\* a record arrives and takes the lowest free slot of the modem; what
\* arrives during a tick is seen by the next retrieve like what arrives
\* after it, so arrivals are placed between ticks
arrive(loc, raw) ==
  /\ ~crashed
  /\ narrived < MaxArrive
  /\ \A c \in Chains : pc[c] \in {"idle", "timer"}
  /\ modem[loc] = Empty
  /\ \A l \in Loc : modem[l] = Empty => loc <= l
  /\ modem' = [modem EXCEPT ![loc] = raw]
  /\ narrived' = narrived + 1
  /\ last' = Step("arrive", 0, {}, << >>)
  /\ UNCHANGED << Options, TxState, RxState, DelState, deletion_index,
                  crashed, is_polling, pc, nbad >>

\* phase one: _receive_messages clears the segment cache, starts a per-poll
\* reassembly index and runs the retrieve helper
receive_messages(c) ==
  /\ ~crashed
  /\ pc[c] = "receive"
  /\ AllRecordsDone(rx[c])
  /\ segment_cache' = << >>
  /\ rx' = [rx EXCEPT ![c] = NewContext]
  /\ pc' = [pc EXCEPT ![c] = "retrieving"]
  /\ last' = Step("receive", c, {}, << >>)
  /\ UNCHANGED << Options, TxState, DelState, deletion_index, modem, narrived, nbad,
                  crashed, is_polling, inbound_queue, store >>

\* what the retrieve helper prints: the stored records by location, with a
\* null element in front (1) or behind (2) when its output is malformed
Retrieved(bad) ==
  LET locs == SeqOfSet({ l \in Loc : modem[l] # Empty })
      recs == [i \in 1 .. Len(locs) |->
                 transform_received_message(modem[locs[i]], locs[i])]
      null == << transform_received_message(NullRaw, FalseLoc) >>
  IN IF bad = 1 THEN null \o recs
     ELSE IF bad = 2 THEN recs \o null
     ELSE recs

\* the retrieve helper exits
retrieve_exit(c, ok, bad) ==
  /\ ~crashed
  /\ pc[c] = "retrieving"
  /\ bad # 0 => nbad < MaxBad
  /\ nbad' = IF bad # 0 THEN nbad + 1 ELSE nbad
  /\ IF ok
       THEN Commit(c, receive_records(World(c), Retrieved(bad)), "retrieve_ok")
       ELSE /\ bad = 0
            /\ pc' = [pc EXCEPT ![c] = "delete"]
            /\ last' = Step("retrieve_fail", c, notify_global_error, << >>)
            /\ UNCHANGED << RxState, deletion_index >>
  /\ UNCHANGED << Options, TxState, DelState, modem, narrived, crashed,
                  is_polling >>

\* the receive_segment handler (or the built-in default) answers for record i
receive_segment_done(c, i, ok) ==
  /\ ~crashed
  /\ i \in 1 .. Len(rx[c].recs)
  /\ rx[c].recs[i].st = "rs"
  /\ ok \/ "receive_segment" \in handlers
  /\ Commit(c, receive_segment_answer(World(c), i, ok), "receive_segment")
  /\ UNCHANGED << Options, TxState, DelState, modem, narrived, nbad, crashed,
                  is_polling >>

\* the second task of record i's waterfall runs
receive_segment_next(c, i) ==
  /\ ~crashed
  /\ i \in 1 .. Len(rx[c].recs)
  /\ rx[c].recs[i].st = "t2"
  /\ Commit(c, receive_second_task(World(c), i), "reassemble")
  /\ UNCHANGED << Options, TxState, DelState, modem, narrived, nbad, crashed,
                  is_polling >>

\* the return_segments handler answers for record i
return_segments_done(c, i, ok) ==
  /\ ~crashed
  /\ i \in 1 .. Len(rx[c].recs)
  /\ rx[c].recs[i].st = "ret"
  /\ Commit(c, return_segments_answer(World(c), i, ok), "return_segments")
  /\ UNCHANGED << Options, TxState, DelState, modem, narrived, nbad, crashed,
                  is_polling >>

\* the receive handler answers for the j-th queued message
receive_done(c, j, ok) ==
  /\ ~crashed
  /\ pc[c] = "delivering"
  /\ j \in 1 .. Len(rx[c].deliv)
  /\ rx[c].deliv[j].st = "wait"
  /\ Commit(c, receive_answer(World(c), j, ok), "receive_done")
  /\ UNCHANGED << Options, TxState, DelState, modem, narrived, nbad, crashed,
                  is_polling >>

\* phase two: _delete_messages runs the delete helper unless the index is empty
delete_messages(c) ==
  /\ ~crashed
  /\ pc[c] = "delete"
  /\ IF DOMAIN deletion_index = {}
       THEN /\ pc' = [pc EXCEPT ![c] = "transmit"]
            /\ UNCHANGED DelState
       ELSE /\ pc' = [pc EXCEPT ![c] = "deleting"]
            /\ del_args' = [del_args EXCEPT
                              ![c] = create_message_deletion_args(deletion_index)]
            /\ del_cap' = [del_cap EXCEPT ![c] = Live]
  /\ rx' = [rx EXCEPT ![c].deliv = << >>]
  /\ last' = Step("delete", c, {}, << >>)
  /\ UNCHANGED << Options, TxState, inbound_queue, segment_cache, store,
                  deletion_index, modem, narrived, nbad, crashed, is_polling >>

\* (variant) the delete helper exits, and a failure installs the still
\* empty undeleted_messages as the index
delete_exit_resetting(c, ok, oks) ==
  /\ ~crashed
  /\ pc[c] = "deleting"
  /\ pc' = [pc EXCEPT ![c] = "transmit"]
  /\ IF ok
       THEN LET captured == IF del_cap[c].live THEN deletion_index
                            ELSE del_cap[c].index
            IN /\ oks \subseteq (Range(del_args[c]) \ {FalseLoc})
               /\ deletion_index' = undeleted_messages(captured, oks)
               /\ modem' = [l \in Loc |-> IF l \in oks THEN Empty ELSE modem[l]]
               /\ del_cap' = [d \in Chains |->
                                IF d # c /\ pc[d] = "deleting" /\ del_cap[d].live
                                  THEN Orphan(deletion_index) ELSE del_cap[d]]
               /\ last' = Step("delete_ok", c, {}, << >>)
       ELSE /\ oks = {}
            /\ deletion_index' = << >>
            /\ last' = Step("delete_fail", c, notify_global_error, << >>)
            /\ UNCHANGED << modem, del_cap >>
  /\ UNCHANGED << Options, TxState, RxState, del_args, narrived, nbad, crashed,
                  is_polling >>

\* the delete helper exits; on success it answered 'ok' for the locations
\* in oks, which it removed from the modem
delete_exit(c, ok, oks) ==
  /\ ~crashed
  /\ pc[c] = "deleting"
  /\ pc' = [pc EXCEPT ![c] = "transmit"]
  /\ IF ok
       THEN LET captured == IF del_cap[c].live THEN deletion_index
                            ELSE del_cap[c].index
            IN /\ oks \subseteq (Range(del_args[c]) \ {FalseLoc})
               /\ deletion_index' = undeleted_messages(captured, oks)
               /\ modem' = [l \in Loc |-> IF l \in oks THEN Empty ELSE modem[l]]
               /\ del_cap' = [d \in Chains |->
                                IF d # c /\ pc[d] = "deleting" /\ del_cap[d].live
                                  THEN Orphan(deletion_index) ELSE del_cap[d]]
               /\ last' = Step("delete_ok", c, {}, << >>)
       ELSE /\ oks = {}
            /\ last' = Step("delete_fail", c, notify_global_error, << >>)
            /\ UNCHANGED << deletion_index, modem, del_cap >>
  /\ UNCHANGED << Options, TxState, RxState, del_args, narrived, nbad, crashed,
                  is_polling >>

\* phase three: _transmit_messages runs the send helper unless the queue is
\* empty; with nothing to do the tick ends and the next one is scheduled
transmit_messages(c) ==
  /\ ~crashed
  /\ pc[c] = "transmit"
  /\ IF outbound_queue = << >>
       THEN /\ pc' = [pc EXCEPT ![c] = "timer"]
            /\ UNCHANGED tx_args
       ELSE /\ pc' = [pc EXCEPT ![c] = "sending"]
            /\ tx_args' = [tx_args EXCEPT
                 ![c] = create_message_transmission_args(outbound_queue)]
  /\ last' = Step("transmit", c, {}, << >>)
  /\ UNCHANGED << Options, RxState, DelState, deletion_index, modem, narrived, nbad,
                  crashed, is_polling, outbound_queue, txlog, nsent >>

\* the results the send helper may print for the batch it was given: one per
\* to/content pair, in order
Results(c) ==
  { r \in [1 .. (Len(tx_args[c]) \div 2) -> {"success", "failure"}] :
      \A i \in DOMAIN r :
        (r[i] = "failure" /\ i <= Len(outbound_queue))
          => txlog[outbound_queue[i].content].fails < MaxFails }

\* the send helper exits; the tick ends and the next one is scheduled
send_exit(c, ok, results) ==
  /\ ~crashed
  /\ pc[c] = "sending"
  /\ pc' = [pc EXCEPT ![c] = "timer"]
  /\ IF ok
       THEN LET st == deliver_transmit_results(results)
            IN /\ outbound_queue' = st.q
               /\ txlog' = st.log
               /\ crashed' = st.crash
               /\ last' = Step("send_ok", c, st.errs, results)
       ELSE /\ results = << >>
            /\ last' = Step("send_fail", c, notify_global_error, << >>)
            /\ UNCHANGED << outbound_queue, txlog, crashed >>
  /\ UNCHANGED << Options, RxState, DelState, deletion_index, modem, narrived, nbad,
                  is_polling, tx_args, nsent >>


\* ------------------------------------------------------------ specifications
Single == Raw(0, 1, 1, 1, 0, << 1 >>)
Part1 == Raw(1, 1, 2, 1, 0, << 2 >>)
Part2 == Raw(1, 2, 2, 1, 0, << 3 >>)
Part1Newer == Raw(1, 1, 2, 2, 0, << 4 >>)

\* the instance after create(options) and the on() calls that registered hs
InitWith(hs, limit, txbatch, delbatch, byref) ==
  /\ is_polling = FALSE
  /\ handlers = hs
  /\ tx_attempt_limit = limit
  /\ transmit_batch_size = txbatch
  /\ delete_batch_size = delbatch
  /\ store_by_ref = byref
  /\ outbound_queue = << >>
  /\ inbound_queue = << >>
  /\ deletion_index = << >>
  /\ segment_cache = << >>
  /\ pc = [c \in Chains |-> "idle"]
  /\ tx_args = [c \in Chains |-> << >>]
  /\ del_args = [c \in Chains |-> << >>]
  /\ del_cap = [c \in Chains |-> Live]
  /\ rx = [c \in Chains |-> NewContext]
  /\ modem = [l \in Loc |-> Empty]
  /\ store = << >>
  /\ txlog = [k \in 1 .. MaxSend |-> NoLog]
  /\ nsent = 0
  /\ narrived = 0
  /\ nbad = 0
  /\ crashed = FALSE
  /\ last = Step("create", 0, {}, << >>)

\* start() called only while no poll loop of the instance is alive
start_once == (\A d \in Chains : pc[d] = "idle") /\ start(1)

\* The outbound pipeline of one poll loop: nothing ever arrives on the modem.
InitTx ==
  \E hs \in {{"error", "transmit"}, {}}, limit \in 0 .. 3, txbatch \in {2, 64} :
    InitWith(hs, limit, txbatch, 1024, FALSE)

NextTx ==
  \/ start_once
  \/ handle_polling_timeout(1)
  \/ \E callback \in BOOLEAN : send(callback)
  \/ receive_messages(1)
  \/ \E ok \in BOOLEAN : retrieve_exit(1, ok, 0)
  \/ delete_messages(1)
  \/ transmit_messages(1)
  \/ \E ok \in BOOLEAN :
       \E results \in (IF ok THEN Results(1) ELSE {<< >>}) :
         send_exit(1, ok, results)

SpecTx == InitTx /\ [][NextTx]_vars

\* The outbound pipeline with callers that pass send arguments of any kind.
InitSend ==
  \E txbatch \in {2, 64} : InitWith({"error", "transmit"}, 2, txbatch, 1024, FALSE)

NextSend ==
  \/ start_once
  \/ handle_polling_timeout(1)
  \/ \E to \in ArgKinds, message \in ArgKinds, callback \in CallbackKinds :
       send_call(to, message, callback)
  \/ receive_messages(1)
  \/ \E ok \in BOOLEAN : retrieve_exit(1, ok, 0)
  \/ delete_messages(1)
  \/ transmit_messages(1)
  \/ \E ok \in BOOLEAN :
       \E results \in (IF ok THEN Results(1) ELSE {<< >>}) :
         send_exit(1, ok, results)

SpecSend == InitSend /\ [][NextSend]_vars

\* The outbound pipeline under that one configuration with well-typed callers.
SpecBatch == InitSend /\ [][NextTx]_vars


\* The inbound and deletion pipelines of one poll loop: nothing is sent.
InitRx ==
  \/ InitWith({"error", "receive"}, 2, 64, 1024, FALSE)
  \/ \E byref \in BOOLEAN :
       InitWith({"error", "receive", "receive_segment", "return_segments"},
                2, 64, 1024, byref)

Arrivals == {Single, Part1, Part2}

NextRx ==
  \/ start_once
  \/ handle_polling_timeout(1)
  \/ \E loc \in Loc, raw \in Arrivals : arrive(loc, raw)
  \/ receive_messages(1)
  \/ \E ok \in BOOLEAN, bad \in 0 .. 2 : retrieve_exit(1, ok, bad)
  \/ \E i \in 1 .. MaxLoc + 1, ok \in BOOLEAN : receive_segment_done(1, i, ok)
  \/ \E i \in 1 .. MaxLoc + 1 : receive_segment_next(1, i)
  \/ \E i \in 1 .. MaxLoc + 1, ok \in BOOLEAN : return_segments_done(1, i, ok)
  \/ \E j \in 1 .. 2 * MaxLoc, ok \in BOOLEAN : receive_done(1, j, ok)
  \/ delete_messages(1)
  \/ \E ok \in BOOLEAN, oks \in SUBSET Loc : delete_exit(1, ok, oks)
  \/ transmit_messages(1)

SpecRx == InitRx /\ [][NextRx]_vars

\* The inbound and deletion pipelines of one poll loop under an embedder
\* whose receive handler refuses every message; the helpers' output is
\* well-formed.
NextRefuse ==
  \/ start_once
  \/ handle_polling_timeout(1)
  \/ \E loc \in Loc, raw \in Arrivals : arrive(loc, raw)
  \/ receive_messages(1)
  \/ \E ok \in BOOLEAN : retrieve_exit(1, ok, 0)
  \/ \E i \in 1 .. MaxLoc, ok \in BOOLEAN : receive_segment_done(1, i, ok)
  \/ \E i \in 1 .. MaxLoc : receive_segment_next(1, i)
  \/ \E i \in 1 .. MaxLoc, ok \in BOOLEAN : return_segments_done(1, i, ok)
  \/ \E j \in 1 .. 2 * MaxLoc : receive_done(1, j, FALSE)
  \/ delete_messages(1)
  \/ \E ok \in BOOLEAN, oks \in SUBSET Loc : delete_exit(1, ok, oks)
  \/ transmit_messages(1)

SpecRefuse == InitRx /\ [][NextRefuse]_vars

\* The inbound and deletion pipelines of one poll loop of an instance with
\* no receive handler; the helpers' output is well-formed.
InitNoReceive ==
  \/ InitWith({"error"}, 2, 64, 1024, FALSE)
  \/ InitWith({"error", "receive_segment", "return_segments"}, 2, 64, 1024, FALSE)

NextNoReceive ==
  \/ start_once
  \/ handle_polling_timeout(1)
  \/ \E loc \in Loc, raw \in Arrivals : arrive(loc, raw)
  \/ receive_messages(1)
  \/ \E ok \in BOOLEAN : retrieve_exit(1, ok, 0)
  \/ \E i \in 1 .. MaxLoc, ok \in BOOLEAN : receive_segment_done(1, i, ok)
  \/ \E i \in 1 .. MaxLoc : receive_segment_next(1, i)
  \/ \E i \in 1 .. MaxLoc, ok \in BOOLEAN : return_segments_done(1, i, ok)
  \/ delete_messages(1)
  \/ \E ok \in BOOLEAN, oks \in SUBSET Loc : delete_exit(1, ok, oks)
  \/ transmit_messages(1)

SpecNoReceive == InitNoReceive /\ [][NextNoReceive]_vars

\* The inbound and deletion pipelines of one poll loop with well-formed
\* helper output, for an embedder that persists segments and listens for
\* release_segments.
InitInbound ==
  InitWith({"error", "receive", "receive_segment", "return_segments",
            "release_segments"}, 2, 64, 1024, FALSE)

NextInbound ==
  \/ start_once
  \/ handle_polling_timeout(1)
  \/ \E loc \in Loc, raw \in Arrivals : arrive(loc, raw)
  \/ receive_messages(1)
  \/ \E ok \in BOOLEAN : retrieve_exit(1, ok, 0)
  \/ \E i \in 1 .. MaxLoc, ok \in BOOLEAN : receive_segment_done(1, i, ok)
  \/ \E i \in 1 .. MaxLoc : receive_segment_next(1, i)
  \/ \E i \in 1 .. MaxLoc, ok \in BOOLEAN : return_segments_done(1, i, ok)
  \/ \E j \in 1 .. 2 * MaxLoc, ok \in BOOLEAN : receive_done(1, j, ok)
  \/ delete_messages(1)
  \/ \E ok \in BOOLEAN, oks \in SUBSET Loc : delete_exit(1, ok, oks)
  \/ transmit_messages(1)

SpecInbound == InitInbound /\ [][NextInbound]_vars

\* The inbound pipeline with segment handlers that always complete without
\* error, in any order, and a receive handler that accepts.
NextAsync ==
  \/ start_once
  \/ handle_polling_timeout(1)
  \/ \E loc \in Loc, raw \in {Part1, Part2} : arrive(loc, raw)
  \/ receive_messages(1)
  \/ retrieve_exit(1, TRUE, 0)
  \/ \E i \in 1 .. MaxLoc : receive_segment_done(1, i, TRUE)
  \/ \E i \in 1 .. MaxLoc : receive_segment_next(1, i)
  \/ \E i \in 1 .. MaxLoc : return_segments_done(1, i, TRUE)
  \/ \E j \in 1 .. 2 * MaxLoc : receive_done(1, j, TRUE)
  \/ delete_messages(1)
  \/ \E ok \in BOOLEAN :
       delete_exit(1, ok, IF ok THEN Range(del_args[1]) \ {FalseLoc} ELSE {})
  \/ transmit_messages(1)

SpecAsync == InitInbound /\ [][NextAsync]_vars

\* The same pipelines on the built-in segment cache: no segment handlers.
InitCache == InitWith({"error", "receive"}, 2, 64, 1024, FALSE)

NextCache ==
  \/ start_once
  \/ handle_polling_timeout(1)
  \/ \E loc \in Loc, raw \in Arrivals : arrive(loc, raw)
  \/ receive_messages(1)
  \/ \E ok \in BOOLEAN : retrieve_exit(1, ok, 0)
  \/ \E i \in 1 .. MaxLoc : receive_segment_done(1, i, TRUE)
  \/ \E i \in 1 .. MaxLoc : receive_segment_next(1, i)
  \/ \E j \in 1 .. 2 * MaxLoc, ok \in BOOLEAN : receive_done(1, j, ok)
  \/ delete_messages(1)
  \/ \E ok \in BOOLEAN, oks \in SUBSET Loc : delete_exit(1, ok, oks)
  \/ transmit_messages(1)

SpecCache == InitCache /\ [][NextCache]_vars

\* The inbound pipeline for the segments of one two-part message, with the
\* built-in cache or with segment handlers that may fail, and a delete
\* helper that deletes what it is given or fails.
InitSchedule == InitCache \/ InitInbound

NextSchedule ==
  \/ start_once
  \/ handle_polling_timeout(1)
  \/ \E loc \in Loc, raw \in {Part1, Part2} : arrive(loc, raw)
  \/ receive_messages(1)
  \/ \E ok \in BOOLEAN : retrieve_exit(1, ok, 0)
  \/ \E i \in 1 .. MaxLoc, ok \in BOOLEAN : receive_segment_done(1, i, ok)
  \/ \E i \in 1 .. MaxLoc : receive_segment_next(1, i)
  \/ \E i \in 1 .. MaxLoc, ok \in BOOLEAN : return_segments_done(1, i, ok)
  \/ \E j \in 1 .. 2 * MaxLoc, ok \in BOOLEAN : receive_done(1, j, ok)
  \/ delete_messages(1)
  \/ \E ok \in BOOLEAN :
       delete_exit(1, ok, IF ok THEN Range(del_args[1]) \ {FalseLoc} ELSE {})
  \/ transmit_messages(1)

SpecSchedule == InitSchedule /\ [][NextSchedule]_vars

\* One poll loop with everything around it: start() while no loop is alive,
\* stop(), sends, single-part arrivals, and every helper free to fail. The
\* timer fires, helpers exit and handlers answer, so a step of the loop
\* that stays possible is eventually taken.
InitLoop == InitWith({"error", "receive"}, 2, 64, 1024, FALSE)

send_loop == nsent < MaxLoopSend /\ send(FALSE)

arrive_loop == narrived < MaxLoopArrive /\ \E loc \in Loc : arrive(loc, Single)

LoopStep(c) ==
  \/ handle_polling_timeout(c)
  \/ receive_messages(c)
  \/ \E ok \in BOOLEAN : retrieve_exit(c, ok, 0)
  \/ \E j \in 1 .. MaxLoc, ok \in BOOLEAN : receive_done(c, j, ok)
  \/ delete_messages(c)
  \/ \E ok \in BOOLEAN, oks \in SUBSET Loc : delete_exit(c, ok, oks)
  \/ transmit_messages(c)
  \/ \E ok \in BOOLEAN :
       \E results \in (IF ok THEN Results(c) ELSE {<< >>}) :
         send_exit(c, ok, results)

NextLoop ==
  \/ start_once
  \/ stop
  \/ send_loop
  \/ arrive_loop
  \/ LoopStep(1)

SpecLoop == InitLoop /\ [][NextLoop]_vars /\ WF_vars(LoopStep(1))

\* start() free to be called at any time: every call begins a poll loop of
\* its own. Messages are sent; nothing arrives on the modem.
InitPoll == InitWith({"error", "receive"}, 2, 64, 1024, FALSE)

NextPoll ==
  \/ \E c \in Chains : start(c)
  \/ stop
  \/ send_loop
  \/ \E c \in Chains :
       \/ handle_polling_timeout(c)
       \/ receive_messages(c)
       \/ \E ok \in BOOLEAN : retrieve_exit(c, ok, 0)
       \/ delete_messages(c)
       \/ transmit_messages(c)
       \/ \E ok \in BOOLEAN :
            \E results \in (IF ok THEN Results(c) ELSE {<< >>}) :
              send_exit(c, ok, results)

SpecPoll == InitPoll /\ [][NextPoll]_vars

\* The reassembly engine on its own: the MaxParts segments of one message
\* lie on the modem in any placement and with any timestamps, at most one of
\* them already scheduled for deletion (its location field cleared);
\* return_segments hands over some of them in any order, and one further
\* segment triggers _try_to_reassemble_message.
Placements ==
  { f \in [1 .. MaxParts -> Loc] :
      \A a \in 1 .. MaxParts, b \in 1 .. MaxParts : f[a] = f[b] => a = b }

InitEngine ==
  \E place \in Placements, ts \in [1 .. MaxParts -> {1, 2}], smsc \in {0, 1},
     gone \in {{}} \cup { {n} : n \in 1 .. MaxParts } :
    /\ deletion_index =
         [l \in { place[n] : n \in gone } |->
            LET n == CHOOSE k \in 1 .. MaxParts : place[k] = l
                m == transform_received_message(
                       Raw(1, n, MaxParts, ts[n], smsc, << n >>), l)
            IN schedule_message_for_deletion(m, << >>)[l]]
    /\ modem = [l \in Loc |->
                  IF \E n \in 1 .. MaxParts : place[n] = l
                    THEN LET n == CHOOSE k \in 1 .. MaxParts : place[k] = l
                         IN Raw(1, n, MaxParts, ts[n], smsc, << n >>)
                    ELSE Empty]
    /\ narrived = MaxParts
    /\ is_polling = FALSE
    /\ handlers = {"error", "receive", "receive_segment", "return_segments"}
    /\ tx_attempt_limit = 2
    /\ transmit_batch_size = 64
    /\ delete_batch_size = 1024
    /\ store_by_ref = FALSE
    /\ outbound_queue = << >>
    /\ inbound_queue = << >>
    /\ segment_cache = << >>
    /\ pc = [c \in Chains |-> "idle"]
    /\ tx_args = [c \in Chains |-> << >>]
    /\ del_args = [c \in Chains |-> << >>]
    /\ del_cap = [c \in Chains |-> Live]
    /\ rx = [c \in Chains |-> NewContext]
    /\ store = << >>
    /\ txlog = [k \in 1 .. MaxSend |-> NoLog]
    /\ nsent = 0
    /\ nbad = 0
    /\ crashed = FALSE
    /\ last = Step("create", 0, {}, << >>)

\* the message object of the segment at location l
SegmentAt(l) ==
  IF l \in DOMAIN deletion_index THEN deletion_index[l]
  ELSE transform_received_message(modem[l], l)

\* the segment at location l joins what return_segments will hand over
present(l) ==
  /\ last.op # "reassemble"
  /\ modem[l] # Empty
  /\ Len(store) < MaxParts - 1
  /\ \A k \in 1 .. Len(store) : store[k].at # << l >>
  /\ store' = Append(store, SegmentAt(l))
  /\ last' = Step("present", 0, {}, << >>)
  /\ UNCHANGED << Options, TxState, DelState, inbound_queue, segment_cache, rx,
                  deletion_index, modem, narrived, nbad, crashed, is_polling, pc >>

\* _try_to_reassemble_message with the segment at location l as the trigger
\* and the segments handed over so far as its peers
reassemble(l) ==
  /\ last.op # "reassemble"
  /\ modem[l] # Empty
  /\ \A k \in 1 .. Len(store) : store[k].at # << l >>
  /\ LET message == SegmentAt(l)
         r == try_to_reassemble_message(message, [def |-> TRUE, list |-> store])
     IN /\ inbound_queue' = IF r.kind = "message" THEN Append(inbound_queue, r.m)
                            ELSE inbound_queue
        /\ last' = Step("reassemble", 0, {}, << r.kind >>)
  /\ UNCHANGED << Options, TxState, DelState, segment_cache, rx, store,
                  deletion_index, modem, narrived, nbad, crashed, is_polling, pc >>

NextEngine ==
  \/ \E l \in Loc : present(l)
  \/ \E l \in Loc : reassemble(l)

SpecEngine == InitEngine /\ [][NextEngine]_vars

\* The reassembly index on its own: return_segments hands over up to
\* MaxPeers records of any kind (of the message, of another id, with another
\* total, with a segment number from 0 to one past the total), and then a
\* segment of the message triggers _try_to_reassemble_message.
PeerKinds == {"same", "other_id", "other_total"}

\* a record as an embedder may have stored it, standing at place loc
Peer(kind, segment, ts, loc) ==
  [transform_received_message(
     Raw(IF kind = "other_id" THEN 2 ELSE 1, segment, MaxParts, ts, 0,
         << segment >>), loc)
     EXCEPT !.total_segments = IF kind = "other_total" THEN MaxParts + 1
                               ELSE MaxParts]

InitIndex == InitWith({"error", "receive", "receive_segment", "return_segments"},
                      2, 64, 1024, FALSE)

\* return_segments has one more record to hand over
return_segment(kind, segment, ts) ==
  /\ rx[1].recs = << >>
  /\ Len(store) < MaxPeers
  /\ store' = Append(store, Peer(kind, segment, ts, Len(store) + 1))
  /\ last' = Step("return_segment", 0, {}, << >>)
  /\ UNCHANGED << Options, TxState, DelState, inbound_queue, segment_cache, rx,
                  deletion_index, modem, narrived, nbad, crashed, is_polling, pc >>

\* a segment of the message, retrieved from location MaxLoc, triggers
\* _try_to_reassemble_message with the records handed over as its peers
trigger(segment, ts) ==
  /\ rx[1].recs = << >>
  /\ LET message == Peer("same", segment, ts, MaxLoc)
         r == try_to_reassemble_message(message, [def |-> TRUE, list |-> store])
     IN /\ rx' = [rx EXCEPT ![1].recs =
                    << [m |-> message, st |-> "done", sd |-> FALSE] >>]
        /\ inbound_queue' = IF r.kind = "message" THEN Append(inbound_queue, r.m)
                            ELSE inbound_queue
        /\ last' = Step("reassemble", 0, {}, << r.kind >>)
  /\ UNCHANGED << Options, TxState, DelState, segment_cache, store,
                  deletion_index, modem, narrived, nbad, crashed, is_polling, pc >>

NextIndex ==
  \/ \E kind \in PeerKinds, segment \in 0 .. MaxParts + 1, ts \in {1, 2} :
       return_segment(kind, segment, ts)
  \/ \E segment \in 1 .. MaxParts, ts \in {1, 2} : trigger(segment, ts)

SpecIndex == InitIndex /\ [][NextIndex]_vars

\* The outbound pipeline of one poll loop that is never stopped, with a send
\* helper that transmits everything it is given; the loop's own steps are
\* taken whenever they can be (timers fire, helpers exit).
InitDrain ==
  \E txbatch \in {1, 2, 64} :
    InitWith({"error", "transmit"}, 2, txbatch, 1024, FALSE)

DrainStep ==
  \/ handle_polling_timeout(1)
  \/ receive_messages(1)
  \/ retrieve_exit(1, TRUE, 0)
  \/ delete_messages(1)
  \/ transmit_messages(1)
  \/ \E results \in { r \in Results(1) : \A i \in DOMAIN r : r[i] = "success" } :
       send_exit(1, TRUE, results)

NextDrain ==
  \/ start_once
  \/ \E callback \in BOOLEAN : send(callback)
  \/ DrainStep

SpecDrain == InitDrain /\ [][NextDrain]_vars /\ WF_vars(DrainStep)

\* ===================================================================== claims
Contents(q) == { q[i].content : i \in 1 .. Len(q) }

PosIn(q, x) == CHOOSE i \in 1 .. Len(q) : q[i].content = x

Sent == 1 .. nsent

\* the states of a loop between two ticks
AtRest == {"idle", "timer"}

\* a step in which a helper of loop c fails
HelperFails(c, op) == last'.op = op /\ last'.c = c

\* C2: when the retrieve, delete or send helper fails, the error handler is
\* called with scope 'global', the tick moves on to its next phase (after
\* Transmit: to the timer of the next tick), the polling flag is untouched,
\* and the next tick begins unless stop() is called.
C2_HelperFailureReported ==
  /\ [][\A c \in Chains :
          /\ HelperFails(c, "retrieve_fail") => pc'[c] = "delete"
          /\ HelperFails(c, "delete_fail") => pc'[c] = "transmit"
          /\ HelperFails(c, "send_fail") => pc'[c] = "timer"
          /\ (\E op \in {"retrieve_fail", "delete_fail", "send_fail"} :
                HelperFails(c, op)) =>
               /\ "error" \in handlers => last'.errs = {"global"}
               /\ is_polling' = is_polling
               /\ ~crashed']_vars
  /\ [](last.op \in {"retrieve_fail", "delete_fail", "send_fail"}
         => <>(pc[1] = "receive" \/ ~is_polling))

\* C2 witness: the delete helper has just failed, the handler has the
\* global error and the Transmit phase is next
C2_Witness ==
  /\ last.op = "delete_fail" /\ last.errs = {"global"}
  /\ pc[1] = "transmit" /\ is_polling

\* C3: at most one poll cycle of the instance is between the start of its
\* Receive phase and the completion of its Transmit phase.
C3_OneCycleInProgress ==
  Cardinality({ c \in Chains : pc[c] \notin AtRest }) <= 1

\* C4: stop() leaves a tick in flight alone and that tick runs to its end;
\* while the flag is down a loop at rest starts no phase unless start() is
\* called.
C4_StopEndsAfterTick ==
  /\ [][/\ last'.op = "stop" => pc' = pc
        /\ \A c \in Chains :
             (~is_polling /\ pc[c] \in AtRest /\ pc'[c] \notin AtRest)
               => last'.op = "start"]_vars
  /\ \A c \in {1} : []((~is_polling /\ pc[c] \notin AtRest) => <>(pc[c] = "timer"))

\* C4 witness: a tick that was in flight when stop() was called has just
\* finished its Transmit phase with the flag down
C4_Witness ==
  /\ ~is_polling /\ pc[1] = "timer"
  /\ last.op \in {"transmit", "send_ok", "send_fail"} /\ last.c = 1

\* the phases after Receive in a tick
AfterReceive == {"delete", "deleting", "transmit", "sending"}

\* C1: within a tick the phases run in the order Receive, Delete, Transmit:
\* while a loop is in its Delete or Transmit phase no per-record work and no
\* delivery of its Receive phase is still under way, and a loop enters
\* Transmit only from its Delete phase.
C1_PhasesInOrder ==
  [][\A c \in Chains :
       /\ pc'[c] \in AfterReceive =>
            AllRecordsDone(rx'[c]) /\ AllDelivered(rx'[c])
       /\ (pc'[c] = "transmit" /\ pc[c] # "transmit") =>
            pc[c] \in {"delete", "deleting"}
       /\ (pc'[c] = "deleting" /\ pc[c] # "deleting") => pc[c] = "delete"]_vars

\* a step in which the Transmit phase of loop c handles the helper's results
TransmitResults(c) ==
  pc[c] = "sending" /\ pc'[c] = "timer" /\ last'.op = "send_ok"

\* C5: after a Transmit phase every item the helper reported 'success' for
\* is gone from outbound_queue, and the items still queued stand in the
\* relative order they had before the phase.
C5_SuccessGoneOrderKept ==
  [][\A c \in Chains : TransmitResults(c) =>
       /\ \A i \in DOMAIN last'.res :
            last'.res[i] = "success" =>
              outbound_queue[i].content \notin Contents(outbound_queue')
       /\ \A a, b \in 1 .. Len(outbound_queue') :
            a < b =>
              /\ outbound_queue'[a].content \in Contents(outbound_queue)
              /\ outbound_queue'[b].content \in Contents(outbound_queue)
              /\ PosIn(outbound_queue, outbound_queue'[a].content)
                   < PosIn(outbound_queue, outbound_queue'[b].content)]_vars

\* C5 witness: a phase with a success and a failure has just ended and the
\* failed item is still queued
C5_Witness ==
  /\ last.op = "send_ok"
  /\ Len(last.res) = 2
  /\ last.res[1] = "success" /\ last.res[2] = "failure"
  /\ Len(outbound_queue) = 1

\* C6: with a limit L > 0 an item's TransmitError (its callback called with
\* the error, the error event with scope 'transmit') has been raised exactly
\* when the item has had L failed results: not before the L-th one, and on it.
C6_ErrorOnLthFailure ==
  tx_attempt_limit > 0 =>
    \A k \in Sent :
      /\ (txlog[k].cb_err > 0 \/ txlog[k].ev_err > 0)
           => txlog[k].fails >= tx_attempt_limit
      /\ txlog[k].fails >= tx_attempt_limit =>
           /\ txlog[k].cb => txlog[k].cb_err > 0
           /\ "error" \in handlers => txlog[k].ev_err > 0

\* C6 witness: under the default limit of 2 an item has just had its
\* second failure and its callback has the error
C6_Witness ==
  /\ tx_attempt_limit = 2
  /\ \E k \in Sent : txlog[k].fails = 2 /\ txlog[k].cb_err = 1 /\ txlog[k].ev_err = 1

\* C7: an item whose retries are exhausted is out of outbound_queue once that
\* Transmit phase is over, and it has produced one TransmitError, not more.
C7_ExhaustedItemRemoved ==
  tx_attempt_limit > 0 =>
    \A k \in Sent :
      txlog[k].fails >= tx_attempt_limit =>
        /\ k \notin Contents(outbound_queue)
        /\ txlog[k].ev_err <= 1

\* C8: the callback given to send() is called once at most over the life of
\* the item, with a null error or with the error.
C8_CallbackOnce ==
  \A k \in Sent : txlog[k].cb_null + txlog[k].cb_err <= 1

\* C9: tx_attempts is 0 on a new item, never decreases, and stays within a
\* limit greater than zero; with the limit zero no TransmitError is raised
\* and an item the helper failed stays queued.
C9_AttemptsBounded ==
  [][/\ \A i \in 1 .. Len(outbound_queue') :
          LET item == outbound_queue'[i] IN
          /\ item.content \notin Contents(outbound_queue) => item.tx_attempts = 0
          /\ item.content \in Contents(outbound_queue) =>
               item.tx_attempts
                 >= outbound_queue[PosIn(outbound_queue, item.content)].tx_attempts
          /\ tx_attempt_limit > 0 => item.tx_attempts <= tx_attempt_limit
     /\ tx_attempt_limit = 0 =>
          /\ \A k \in 1 .. MaxSend : txlog'[k].cb_err = 0 /\ txlog'[k].ev_err = 0
          /\ \A c \in Chains : TransmitResults(c) =>
               \A i \in DOMAIN last'.res :
                 last'.res[i] = "failure" =>
                   outbound_queue[i].content \in Contents(outbound_queue')]_vars

\* C9 witness: an item has reached a limit of 3 (0, then 2, then 3)
C9_Witness ==
  /\ tx_attempt_limit = 3
  /\ \E i \in 1 .. Len(outbound_queue) : outbound_queue[i].tx_attempts = 3

\* the messages of loop c whose receive handler has completed without error
Handled(c) ==
  { rx[c].deliv[j].m : j \in { i \in 1 .. Len(rx[c].deliv) : rx[c].deliv[i].st = "ok" } }

\* the Receive phase of loop c has just ended through its deliveries
ReceiveEnded(c) ==
  pc[c] = "delete" /\ last.c = c /\ last.res = << "delivered" >>

\* C10: when the Receive phase ends, every modem location of every part of
\* every message whose receive handler completed without error is a key of
\* deletion_index; a part counts while the modem still holds it there.
C10_HandledScheduled ==
  \A c \in Chains : ReceiveEnded(c) =>
    \A m \in Handled(c) :
      \A k \in 1 .. Len(m.at) :
        (m.total_segments <= 1 \/ modem[m.at[k]] = RawOf(m.parts[k]))
          => m.at[k] \in DOMAIN deletion_index

\* C10 witness: a Receive phase has ended with a two-part composite handled
\* and both of its locations scheduled
C10_Witness ==
  \E c \in Chains :
    /\ ReceiveEnded(c)
    /\ \E m \in Handled(c) :
         Len(m.at) = 2 /\ Range(m.at) \subseteq DOMAIN deletion_index

\* the messages of loop c the receive handler has refused
Refused(c) ==
  { rx[c].deliv[j].m : j \in { i \in 1 .. Len(rx[c].deliv) : rx[c].deliv[i].st = "err" } }

\* C11: a refusal by the receive handler emits no error event, and no member
\* location of a refused message is handed to the delete helper in that
\* tick, so the message stays on the modem for the next poll.
C11_RefusedKept ==
  [][\A c \in Chains :
       /\ (\E j \in 1 .. Len(rx[c].deliv) :
             /\ rx[c].deliv[j].st = "wait"
             /\ Len(rx'[c].deliv) >= j /\ rx'[c].deliv[j].st = "err")
            => last'.errs = {}
       /\ (pc[c] = "delete" /\ pc'[c] = "deleting") =>
            \A m \in Refused(c) : Range(m.at) \cap Range(del_args'[c]) = {}]_vars

\* C12: with no receive handler registered the delivery step emits a global
\* error for the queued messages, counts every one of them as failed and
\* adds nothing to deletion_index.
C12_NoHandlerNoSchedule ==
  [][\A c \in Chains :
       ("receive" \notin handlers /\ last'.c = c /\ last'.res = << "delivered" >>) =>
         /\ rx'[c].deliv # << >> => "global" \in last'.errs
         /\ \A j \in 1 .. Len(rx'[c].deliv) : rx'[c].deliv[j].st = "err"
         /\ deletion_index' = deletion_index]_vars

\* C12 witness: a reassembled composite has just been counted as failed,
\* with the global error emitted and nothing scheduled
C12_Witness ==
  /\ "receive" \notin handlers
  /\ last.res = << "delivered" >> /\ "global" \in last.errs
  /\ DOMAIN deletion_index = {}
  /\ \E j \in 1 .. Len(rx[1].deliv) :
       Len(rx[1].deliv[j].m.at) = 2 /\ rx[1].deliv[j].st = "err"

\* the receive handler of loop c accepts the j-th delivery in this step
Accepts(c, j) ==
  /\ j \in 1 .. Len(rx[c].deliv) /\ rx[c].deliv[j].st = "wait"
  /\ j \in 1 .. Len(rx'[c].deliv) /\ rx'[c].deliv[j].st = "ok"

\* C13: when the receive handler accepts a reassembled composite, the
\* release_segments handler, when registered, is called in that step, and the
\* message carries the id <from>-<udh|0>-<total_segments> to call it with.
C13_ReleaseAfterReceive ==
  [][\A c \in Chains : \A j \in 1 .. 2 * MaxLoc :
       (Accepts(c, j) /\ Len(rx[c].deliv[j].m.at) > 1) =>
         LET m == rx[c].deliv[j].m IN
         /\ notify_release_segments \subseteq last'.errs
         /\ m.id = << m.from, m.udh, m.total_segments >>]_vars

\* the deliveries of loop c that are reassembled composites
Composites(c) == { j \in 1 .. Len(rx[c].deliv) : Len(rx[c].deliv[j].m.parts) > 0 }

\* C14: the deliveries of one poll hold at most one composite of a
\* multi-part message (same sender, reference and number of segments).
C14_OneCompositePerPoll ==
  \A c \in Chains : \A j, k \in Composites(c) :
    LET a == rx[c].deliv[j].m
        b == rx[c].deliv[k].m
    IN (a.from = b.from /\ a.udh = b.udh /\ a.total_segments = b.total_segments)
         => j = k

\* the instance runs on the built-in segment cache
BuiltInCache ==
  "receive_segment" \notin handlers /\ "return_segments" \notin handlers

\* C15: on the built-in segment cache, while segment 1 of a two-part message
\* is all that has arrived nothing is queued, delivered or scheduled for
\* deletion; once segment 2 has arrived too, a poll's deliveries are the one
\* composite, and when the receive handler has accepted it both locations
\* are keys of deletion_index.
C15_CachedUntilComplete ==
  BuiltInCache =>
    /\ (narrived = 1 /\ modem[1] = Part1) =>
         /\ inbound_queue = << >>
         /\ DOMAIN deletion_index = {}
         /\ \A c \in Chains : rx[c].deliv = << >>
    /\ (narrived = 2 /\ modem[1] = Part1 /\ modem[2] = Part2) =>
         \A c \in Chains : ReceiveEnded(c) =>
           /\ Len(rx[c].deliv) = 1
           /\ rx[c].deliv[1].m.content = Part1.content \o Part2.content
           /\ rx[c].deliv[1].m.at = << 1, 2 >>
           /\ rx[c].deliv[1].st = "ok" => {1, 2} \subseteq DOMAIN deletion_index

\* C15 witness: with both segments on the modem a poll has delivered the
\* one composite, the receive handler has accepted it and both locations
\* are scheduled
C15_Witness ==
  /\ BuiltInCache
  /\ narrived = 2 /\ modem[1] = Part1 /\ modem[2] = Part2
  /\ ReceiveEnded(1)
  /\ Len(rx[1].deliv) = 1 /\ rx[1].deliv[1].st = "ok"
  /\ rx[1].deliv[1].m.at = << 1, 2 >>
  /\ DOMAIN deletion_index = {1, 2}

\* the index the running delete helper of loop c was started for
Captured(c) ==
  IF del_cap[c].live THEN deletion_index ELSE del_cap[c].index

\* C16: after a successful run of the delete helper, deletion_index holds
\* exactly the scheduled locations the helper did not answer 'ok' for, those
\* left out by the batch cap included, each under its own location as key.
C16_UndeletedKept ==
  [][\A c \in Chains :
       (pc[c] = "deleting" /\ last'.c = c /\ last'.op = "delete_ok") =>
         DOMAIN deletion_index' =
           (DOMAIN Captured(c)) \ { k \in Loc : modem[k] # modem'[k] }]_vars

\* C17: when the delete helper fails, deletion_index after the Delete phase
\* is the deletion_index before it, and the failure is a global error.
C17_DeleteFailureKeepsIndex ==
  [][\A c \in Chains :
       (pc[c] = "deleting" /\ last'.c = c /\ last'.op = "delete_fail") =>
         /\ deletion_index' = deletion_index
         /\ pc'[c] = "transmit"
         /\ "error" \in handlers => "global" \in last'.errs]_vars

\* C17 witness: the delete helper has just failed with two locations
\* scheduled, and both are still scheduled
C17_Witness ==
  /\ last.op = "delete_fail"
  /\ pc[last.c] = "transmit"
  /\ "global" \in last.errs
  /\ DOMAIN deletion_index = {1, 2}

\* C18: a record of the retrieve result that cannot be transformed is
\* reported as a receive error and not as a failure of the phase: no global
\* error is emitted for it, the Receive phase does not end with it, and the
\* messages queued from its sibling records go on to the receive handler.
C18_TransformErrorPerMessage ==
  [][\A c \in Chains :
       (pc[c] = "retrieving" /\ last'.c = c /\ last'.op = "retrieve_ok"
          /\ nbad' > nbad) =>
         /\ "global" \notin last'.errs
         /\ "error" \in handlers => "receive" \in last'.errs
         /\ inbound_queue' # << >> => pc'[c] # "delete"]_vars

\* a call of send whose arguments violate the documented types
TypeViolation(to, message, callback) ==
  to # "string" \/ message # "string" \/ callback = "object"

LocOf(n) == CHOOSE l \in Loc : modem[l].segment = n

\* the segment objects in segment-number order; a segment scheduled for
\* deletion has its location field cleared
InOrder ==
  [n \in 1 .. MaxParts |->
     LET m == transform_received_message(modem[LocOf(n)], LocOf(n))
     IN IF LocOf(n) \in DOMAIN deletion_index
          THEN [m EXCEPT !.location = << FalseLoc >>] ELSE m]

RECURSIVE ContentFrom(_)
ContentFrom(n) ==
  IF n > MaxParts THEN << >> ELSE InOrder[n].content \o ContentFrom(n + 1)

\* C20: for segments with pairwise distinct numbers covering 1 .. total, the
\* outcome of reassembly does not depend on which segment triggers it or on
\* the order the others are handed over: the composite's content is the
\* segments' contents in segment-number order, its parts are the segments in
\* that order and its locations are theirs in that order.
C20_ReassemblyOrderFree ==
  (last.op = "reassemble" /\ Len(store) = MaxParts - 1) =>
    IF modem[LocOf(1)].smsc_timestamp # 0
      THEN last.res = << "error" >> /\ inbound_queue = << >>
      ELSE /\ last.res = << "message" >>
           /\ Len(inbound_queue) = 1
           /\ inbound_queue[1].content = ContentFrom(1)
           /\ inbound_queue[1].parts = InOrder
           /\ inbound_queue[1].location =
                [n \in 1 .. MaxParts |-> InOrder[n].location[1]]

\* C20 witness: segment 2 has triggered the reassembly with segment 3 handed
\* over before segment 1, and the composite reads 1, 2, 3
C20_Witness ==
  /\ last.op = "reassemble" /\ last.res = << "message" >>
  /\ Len(store) = 2
  /\ store[1].segment = 3 /\ store[2].segment = 1
  /\ Len(inbound_queue) = 1
  /\ inbound_queue[1].content = << 1, 2, 3 >>
  /\ DOMAIN deletion_index = {}
  /\ inbound_queue[1].location = << LocOf(1), LocOf(2), LocOf(3) >>

\* the segment that triggered the reassembly, once one has
Triggered == rx[1].recs # << >> /\ last.op = "reassemble"
Trigger == rx[1].recs[1].m

\* the records that compete for slot k: the peers handed over and the
\* trigger, as far as they belong to the trigger's message
Candidates(k) ==
  { m \in Range(store) \cup {Trigger} :
      /\ m.id = Trigger.id
      /\ m.total_segments = Trigger.total_segments
      /\ m.segment = k }

\* C21: once the peers and the trigger are inserted, every slot of the
\* reassembly index that has candidates holds one of them, one with the
\* latest timestamp among them, and the trigger when it is among the latest.
C21_LatestInSlot ==
  Triggered =>
    LET r == build_reassembly_index(Trigger, store)
    IN /\ ~r.throw
       /\ \A k \in 1 .. MaxParts :
            Candidates(k) # {} =>
              /\ k \in DOMAIN r.index
              /\ r.index[k] \in Candidates(k)
              /\ \A m \in Candidates(k) : m.timestamp <= r.index[k].timestamp
              /\ (Trigger.segment = k
                    /\ \A m \in Candidates(k) : m.timestamp <= Trigger.timestamp)
                   => r.index[k] = Trigger

\* C21 witness: two peers with different timestamps and the trigger compete
\* for slot 1; the trigger is the older one, and the slot holds the newer peer
C21_Witness ==
  /\ Triggered
  /\ Len(store) = 2
  /\ Trigger.segment = 1 /\ Trigger.timestamp = 1
  /\ store[1] \in Candidates(1) /\ store[1].timestamp = 2
  /\ store[2] \in Candidates(1) /\ store[2].timestamp = 1
  /\ build_reassembly_index(Trigger, store).index[1] = store[1]

\* the peers the documented rule rejects for this trigger
Rejected(m) ==
  \/ m.id # Trigger.id
  \/ m.segment \notin 1 .. Trigger.total_segments
  \/ m.total_segments # Trigger.total_segments

\* C22: a peer whose id or total_segments differs from the trigger's, or
\* whose segment number lies outside 1 .. total_segments, leaves the
\* reassembly index as it was, so every key of the index is a segment number
\* from 1 to total_segments.
C22_InvalidPeerRejected ==
  Triggered =>
    LET r == build_reassembly_index(Trigger, store)
    IN /\ DOMAIN r.index \subseteq 1 .. Trigger.total_segments
       /\ \A k \in DOMAIN r.index : ~Rejected(r.index[k])

\* C23: when the retrieved segments of a multi-part message carry both
\* timestamp and smsc_timestamp, reassembly yields a composite, and each of
\* the composite's two fields is the latest value of that field among its
\* parts.
C23_BothTimestampsLatest ==
  (last.op = "reassemble" /\ Len(store) = MaxParts - 1
     /\ \A l \in Loc : modem[l] # Empty =>
          modem[l].timestamp # 0 /\ modem[l].smsc_timestamp # 0) =>
    /\ last.res = << "message" >>
    /\ Len(inbound_queue) = 1
    /\ \A l \in Loc : modem[l] # Empty =>
         /\ modem[l].timestamp <= inbound_queue[1].timestamp
         /\ modem[l].smsc_timestamp <= inbound_queue[1].smsc_timestamp
    /\ \E l \in Loc : modem[l] # Empty
                       /\ modem[l].timestamp = inbound_queue[1].timestamp
    /\ \E l \in Loc : modem[l] # Empty
                       /\ modem[l].smsc_timestamp = inbound_queue[1].smsc_timestamp

\* the number of items a Transmit phase submits from a queue of n items
BatchOf(n) == Min(n, transmit_batch_size - 1)

ScheduledAsPersisted(l) ==
  \E c \in Chains : \E i \in 1 .. Len(rx[c].recs) :
    /\ "receive_segment" \in handlers
    /\ rx[c].recs[i].st = "t2" /\ rx[c].recs[i].sd
    /\ rx[c].recs[i].m.at = << l >>
    /\ last'.c = c /\ last'.op = "reassemble"

\* in this step the receive handler accepts a message that l is a location of
ScheduledAsDelivered(l) ==
  \E c \in Chains : \E j \in 1 .. Len(rx[c].deliv) :
    /\ rx[c].deliv[j].st = "wait"
    /\ l \in Range(rx[c].deliv[j].m.at)
    /\ last'.c = c /\ last'.op = "receive_done"
    /\ Len(rx'[c].deliv) >= j /\ rx'[c].deliv[j].st = "ok"

\* C25: a location enters deletion_index only when the receive_segment
\* handler has completed without error for the segment there, or when the
\* receive handler completes without error for a message the segment is
\* part of; with no receive_segment handler, or after its error, a segment
\* is not scheduled before its composite is delivered.
C25_ScheduledOnlyWhenSafe ==
  [][\A l \in Loc :
       (l \in DOMAIN deletion_index' /\ l \notin DOMAIN deletion_index) =>
         ScheduledAsPersisted(l) \/ ScheduledAsDelivered(l)]_vars

\* C25 witness: the receive_segment handler persisted the segment at
\* location 1, which is scheduled, and has just failed for the segment at
\* location 2, which is not
C25_Witness ==
  /\ "receive_segment" \in handlers
  /\ modem[1] = Part1 /\ modem[2] = Part2
  /\ last.op = "receive_segment" /\ "receive" \in last.errs
  /\ DOMAIN deletion_index = {1}

\* C26: whenever a Receive phase ends, with or without an error,
\* inbound_queue is empty, so nothing queued in one poll is still queued in
\* a later one.
C26_QueueEmptyAfterReceive ==
  [][\A c \in Chains :
       (pc[c] # "delete" /\ pc'[c] = "delete") => inbound_queue' = << >>]_vars

\* C27: every item of inbound_queue, single or composite, carries in its
\* location field the modem location of each of its parts, also when its
\* segments were persisted by the receive_segment handler and scheduled for
\* deletion before the composite was built.
C27_QueuedLocationsReal ==
  \A j \in 1 .. Len(inbound_queue) :
    inbound_queue[j].location = inbound_queue[j].at

\* C28: when the retrieve result of a poll is exactly the two segments of
\* one message and the segment handlers complete without error in whatever
\* order, the poll queues one composite and calls receive once: when its
\* Receive phase ends, its deliveries are that one composite.
C28_OneCompositeAnyOrder ==
  \A c \in Chains :
    (ReceiveEnded(c) /\ narrived = 2 /\ modem[1] = Part1 /\ modem[2] = Part2
       /\ Len(rx[c].recs) = 0) =>
      /\ Len(rx[c].deliv) = 1
      /\ rx[c].deliv[1].m.content = Part1.content \o Part2.content

\* the send helper of loop c is running
InFlight(c) == pc[c] = "sending"

C30_EveryItemTransmitted ==
  \A k \in 1 .. MaxSend :
    [](is_polling /\ k \in Contents(outbound_queue)
         => <>(k \notin Contents(outbound_queue) /\ txlog[k].oks >= 1))

====
